---- MODULE Spec2Model ----
(***************************************************************************)
(* Delta violation penalty calculator (src/Delta.py).                      *)
(*                                                                         *)
(* Number representation.  The program computes with Python floats; the    *)
(* model computes exactly, in fixed point:                                 *)
(*   - a delta (per-unit delta, position delta, net delta, violation       *)
(*     quantity) d is the integer 2*d, so deltas are multiples of 0.5;     *)
(*   - a quantity is an integer count of contracts;                        *)
(*   - the underlying price is a whole number of rupees;                   *)
(*   - a money amount a (rupees) is the integer 10000*a.                   *)
(* With these units every product the program forms is an exact integer.   *)
(***************************************************************************)
EXTENDS Integers, Sequences, FiniteSets, TLC

VARIABLES
    lists,          \* the list objects of the session: list id -> rows
    old_positions,  \* st.session_state.old_positions: id of a list object
    new_positions,  \* st.session_state.new_positions: id of a list object
    stock_price,    \* value of the "Underlying Price" number_input
    report,         \* what the RESULTS section rendered in the last script run
    last,           \* the widget whose interaction triggered the last script run
    call            \* last direct application of one of the three functions

vars == <<lists, old_positions, new_positions, stock_price, report, last, call>>

-----------------------------------------------------------------------------
(* Bounds of the model *)

\* The two books hold at most MaxRows rows together.
MaxRows == 2
\* Aggregates handed directly to check_violation: -MaxAgg..MaxAgg (half units).
MaxAgg == 5
\* Quantities handed directly to calculate_position_delta: -MaxQty..MaxQty.
MaxQty == 3
\* Per-unit deltas handed directly to calculate_position_delta (half units).
MaxDelta == 3
\* Violation quantities handed directly to calculate_penalty go up to
\* MaxLots lots of 3600 contracts.
MaxLots == 3

-----------------------------------------------------------------------------
(* Values *)

Abs(x) == IF x < 0 THEN -x ELSE x
Max(x, y) == IF x >= y THEN x ELSE y
Min(x, y) == IF x <= y THEN x ELSE y

\* The delta n (an integer) in half units.
Fx(n) == 2 * n
\* The amount of n rupees in money units.
Rupees(n) == 10000 * n

Types == {"Call Option", "Put Option", "Future"}
Directions == {"Long", "Short"}

\* Texts typed into the "Delta" text_input.
DeltaTexts == {"0.5", "-0.5", "abc"}

\* Python's float() on those texts: the value in half units, or ValueError.
FloatRaises(text) == text \notin {"0.5", "-0.5"}
Float(text) == CASE text = "0.5" -> 1
                 [] text = "-0.5" -> -1

\* Values of the "Quantity" number_input: its min_value and one lot.
QuantityInputs(min_value) == {min_value, 3600}

\* Values of the "Underlying Price" number_input (min_value 0), whole rupees.
Prices == {0, 1400}

ListIds == {"a", "b"}

-----------------------------------------------------------------------------
(* The three functions *)

\* Variants of calculate_position_delta with a plausible slip each.
\* Put Option: the typed sign of the delta is kept.
position_delta_put_signed(pos_type, direction, qty, delta_value) ==
    IF pos_type = "Future"
    THEN (IF direction = "Long" THEN Fx(1) ELSE -Fx(1)) * qty
    ELSE IF pos_type = "Call Option"
    THEN (IF direction = "Long" THEN delta_value ELSE -delta_value) * qty
    ELSE (IF direction = "Long" THEN -delta_value ELSE delta_value) * qty

\* Call Option: the magnitude of the delta is forced, as for puts.
position_delta_call_abs(pos_type, direction, qty, delta_value) ==
    IF pos_type = "Future"
    THEN (IF direction = "Long" THEN Fx(1) ELSE -Fx(1)) * qty
    ELSE IF pos_type = "Call Option"
    THEN (IF direction = "Long" THEN Abs(delta_value) ELSE -Abs(delta_value)) * qty
    ELSE (IF direction = "Long" THEN -Abs(delta_value) ELSE Abs(delta_value)) * qty

\* Future: the typed delta is used instead of 1.
position_delta_future_delta(pos_type, direction, qty, delta_value) ==
    IF pos_type \in {"Future", "Call Option"}
    THEN (IF direction = "Long" THEN delta_value ELSE -delta_value) * qty
    ELSE (IF direction = "Long" THEN -Abs(delta_value) ELSE Abs(delta_value)) * qty

calculate_position_delta(pos_type, direction, qty, delta_value) ==
    IF pos_type = "Future"
    THEN LET effective_delta == IF direction = "Long" THEN Fx(1) ELSE -Fx(1)
         IN  effective_delta * qty
    ELSE IF pos_type = "Call Option"
    THEN LET effective_delta == IF direction = "Long" THEN delta_value ELSE -delta_value
         IN  effective_delta * qty
    ELSE LET effective_delta == IF direction = "Long" THEN -Abs(delta_value)
                                                       ELSE Abs(delta_value)
         IN  effective_delta * qty

\* abs(delta_violation) * stock_price * 0.01, in money units:
\* (|dv|/2) * price * 0.01 * 10000 = |dv| * price * 50.
PenaltyAmount(delta_violation, price) == Abs(delta_violation) * price * 50

\* final_penalty * 0.18 = final_penalty * 9/50 (amounts are multiples of 50).
Gst(final_penalty) == (final_penalty \div 50) * 9

\* Variant of calculate_penalty: the floor of 5000 is left out.
calculate_penalty_no_floor(delta_violation, price) ==
    LET penalty_amount == PenaltyAmount(delta_violation, price)
        final_penalty == Min(Rupees(100000), penalty_amount)
        gst == Gst(final_penalty)
        total_penalty == final_penalty + gst
    IN  [penalty_amount |-> penalty_amount, final_penalty |-> final_penalty,
         gst |-> gst, total_penalty |-> total_penalty]

calculate_penalty(delta_violation, price) ==
    LET penalty_amount == PenaltyAmount(delta_violation, price)
        final_penalty == Max(Rupees(5000), Min(Rupees(100000), penalty_amount))
        gst == Gst(final_penalty)
        total_penalty == final_penalty + gst
    IN  [penalty_amount |-> penalty_amount, final_penalty |-> final_penalty,
         gst |-> gst, total_penalty |-> total_penalty]

Violation(has, qty, reason) ==
    [has_violation |-> has, violation_qty |-> qty, violation_reason |-> reason]

\* Variants of check_violation with a plausible slip each.
\* A negative base counts as increased when the new delta is more negative.
check_violation_neg_magnitude(net_delta, base_delta) ==
    IF base_delta = 0
    THEN Violation(net_delta # 0, Abs(net_delta), "From zero to non-zero")
    ELSE IF (net_delta > 0 /\ base_delta < 0) \/ (net_delta < 0 /\ base_delta > 0)
    THEN Violation(TRUE, Abs(net_delta - base_delta),
                   IF net_delta > 0 THEN "Sign changed from negative to positive"
                                    ELSE "Sign changed from positive to negative")
    ELSE IF (IF base_delta < 0 THEN net_delta < base_delta ELSE net_delta > base_delta)
    THEN Violation(TRUE, Abs(net_delta - base_delta),
                   "Net Delta increased in same direction")
    ELSE Violation(FALSE, 0, "No violation - Delta decreased or remained same")

\* The same-sign comparison is made before the sign-change test.
check_violation_increase_first(net_delta, base_delta) ==
    IF base_delta = 0
    THEN Violation(net_delta # 0, Abs(net_delta), "From zero to non-zero")
    ELSE IF net_delta > base_delta
    THEN Violation(TRUE, Abs(net_delta - base_delta),
                   "Net Delta increased in same direction")
    ELSE IF (net_delta > 0 /\ base_delta < 0) \/ (net_delta < 0 /\ base_delta > 0)
    THEN Violation(TRUE, Abs(net_delta - base_delta),
                   IF net_delta > 0 THEN "Sign changed from negative to positive"
                                    ELSE "Sign changed from positive to negative")
    ELSE Violation(FALSE, 0, "No violation - Delta decreased or remained same")

\* The base == 0 rule is missing: a zero base falls to the later rules.
check_violation_no_zero_rule(net_delta, base_delta) ==
    IF (net_delta > 0 /\ base_delta < 0) \/ (net_delta < 0 /\ base_delta > 0)
    THEN Violation(TRUE, Abs(net_delta - base_delta),
                   IF net_delta > 0 THEN "Sign changed from negative to positive"
                                    ELSE "Sign changed from positive to negative")
    ELSE IF net_delta > base_delta
    THEN Violation(TRUE, Abs(net_delta - base_delta),
                   "Net Delta increased in same direction")
    ELSE Violation(FALSE, 0, "No violation - Delta decreased or remained same")

check_violation(net_delta, base_delta) ==
    IF base_delta = 0
    THEN Violation(net_delta # 0, Abs(net_delta), "From zero to non-zero")
    ELSE
    LET sign_changed == (net_delta > 0 /\ base_delta < 0)
                        \/ (net_delta < 0 /\ base_delta > 0)
        delta_increased == IF base_delta < 0 THEN net_delta > base_delta
                                             ELSE net_delta > base_delta
    IN  IF sign_changed
        THEN Violation(TRUE, Abs(net_delta - base_delta),
                       IF net_delta > 0 THEN "Sign changed from negative to positive"
                                        ELSE "Sign changed from positive to negative")
        ELSE IF delta_increased
        THEN Violation(TRUE, Abs(net_delta - base_delta),
                       "Net Delta increased in same direction")
        ELSE Violation(FALSE, 0, "No violation - Delta decreased or remained same")

-----------------------------------------------------------------------------
(* The script: books and the RESULTS section *)

\* Variant of the stored row: 'Position Delta' is the docstring's
\* "Delta x Quantity" of the typed values, whatever the type and direction.
Row_typed_product(type, direction, qty, text, position_delta) ==
    [Type |-> type, Direction |-> direction, Quantity |-> qty, Delta |-> text,
     PositionDelta |-> Float(text) * qty]

Row(type, direction, qty, text, position_delta) ==
    [Type |-> type, Direction |-> direction, Quantity |-> qty, Delta |-> text,
     PositionDelta |-> position_delta]

\* sum([pos['Position Delta'] for pos in positions])
RECURSIVE NetDelta(_)
NetDelta(positions) ==
    IF positions = <<>> THEN 0
    ELSE positions[1].PositionDelta + NetDelta(Tail(positions))

NotComputed == <<>>

\* Variant of the RESULTS section: the penalty is computed before the
\* violation flag is looked at.
Results_ungated(olds, news, price) ==
    IF olds = <<>> /\ news = <<>>
    THEN [kind |-> "prompt", base_delta |-> 0, net_delta |-> 0,
          violation |-> NotComputed, penalty |-> NotComputed, note |-> "Add positions"]
    ELSE
    LET v == check_violation(NetDelta(news), NetDelta(olds))
    IN  [kind |-> IF v.has_violation THEN "violation" ELSE "safe",
         base_delta |-> NetDelta(olds), net_delta |-> NetDelta(news),
         violation |-> <<v>>,
         penalty |-> <<calculate_penalty(v.violation_qty, price)>>,
         note |-> v.violation_reason]

\* The RESULTS section of one script run over the two books.
Results(olds, news, price) ==
    IF olds = <<>> /\ news = <<>>
    THEN [kind |-> "prompt", base_delta |-> 0, net_delta |-> 0,
          violation |-> NotComputed, penalty |-> NotComputed, note |-> "Add positions"]
    ELSE
    LET base_delta == NetDelta(olds)
        net_delta == NetDelta(news)
        v == check_violation(net_delta, base_delta)
    IN  IF v.has_violation
        THEN [kind |-> "violation", base_delta |-> base_delta, net_delta |-> net_delta,
              violation |-> <<v>>,
              penalty |-> <<calculate_penalty(v.violation_qty, price)>>,
              note |-> v.violation_reason]
        ELSE [kind |-> "safe", base_delta |-> base_delta, net_delta |-> net_delta,
              violation |-> <<v>>, penalty |-> NotComputed,
              note |-> IF base_delta = 0 /\ net_delta = 0 THEN "No positions to evaluate."
                       ELSE IF net_delta # base_delta THEN v.violation_reason
                       ELSE "Positions are unchanged."]

Old == lists[old_positions]
New == lists[new_positions]

\* Id of a list object that `other` does not refer to.
NewList(other) == CHOOSE id \in ListIds : id # other

\* [pos.copy() for pos in positions]: a new list of row copies.
CopyRows(positions) == [i \in 1..Len(positions) |-> positions[i]]

\* The list objects after a rebinding: cells no variable refers to are freed.
Heap(h, o, n) == [id \in ListIds |-> IF id \in {o, n} THEN h[id] ELSE <<>>]

NoCall == [fn |-> "none", args |-> <<>>, ret |-> <<>>]

Init ==
    /\ lists = [id \in ListIds |-> <<>>]
    /\ old_positions = "a"
    /\ new_positions = "b"
    /\ stock_price \in Prices
    /\ report = Results(<<>>, <<>>, stock_price)
    /\ last = "start"
    /\ call = NoCall

\* Every interaction ends with a script run that renders the RESULTS section.
Rerun(widget) ==
    /\ last' = widget
    /\ report' = Results(lists'[old_positions'], lists'[new_positions'], stock_price')
    /\ UNCHANGED call

AddOld ==
    \E type \in Types, direction \in Directions,
       qty \in QuantityInputs(1), text \in DeltaTexts :
        /\ IF FloatRaises(text)
           THEN UNCHANGED lists
           ELSE /\ Len(Old) + Len(New) < MaxRows
                /\ lists' = [lists EXCEPT ![old_positions] =
                       Append(@, Row(type, direction, qty, text,
                           calculate_position_delta(type, direction, qty, Float(text))))]
        /\ UNCHANGED <<old_positions, new_positions, stock_price>>
        /\ Rerun("add_old")

AddNew ==
    \E type \in Types, direction \in Directions,
       qty \in QuantityInputs(0), text \in DeltaTexts :
        /\ IF FloatRaises(text)
           THEN UNCHANGED lists
           ELSE /\ Len(Old) + Len(New) < MaxRows
                /\ lists' = [lists EXCEPT ![new_positions] =
                       Append(@, Row(type, direction, qty, text,
                           calculate_position_delta(type, direction, qty, Float(text))))]
        /\ UNCHANGED <<old_positions, new_positions, stock_price>>
        /\ Rerun("add_new")

Pop(positions) == SubSeq(positions, 1, Len(positions) - 1)

RemoveLastOld ==
    /\ Old # <<>>
    /\ lists' = [lists EXCEPT ![old_positions] = Pop(@)]
    /\ UNCHANGED <<old_positions, new_positions, stock_price>>
    /\ Rerun("remove_old")

ClearAllOld ==
    /\ Old # <<>>
    /\ old_positions' = NewList(new_positions)
    /\ lists' = Heap([lists EXCEPT ![old_positions'] = <<>>], old_positions', new_positions)
    /\ UNCHANGED <<new_positions, stock_price>>
    /\ Rerun("clear_old")

RemoveLastNew ==
    /\ New # <<>>
    /\ lists' = [lists EXCEPT ![new_positions] = Pop(@)]
    /\ UNCHANGED <<old_positions, new_positions, stock_price>>
    /\ Rerun("remove_new")

ClearAllNew ==
    /\ New # <<>>
    /\ new_positions' = NewList(old_positions)
    /\ lists' = Heap([lists EXCEPT ![new_positions'] = <<>>], old_positions, new_positions')
    /\ UNCHANGED <<old_positions, stock_price>>
    /\ Rerun("clear_new")

\* Variant of the copy: new_positions is bound to the list of old_positions.
CopyTarget_alias(o) == o

\* The list object new_positions is bound to by "Copy Old -> New".
CopyTarget(o) == NewList(o)

CopyOldToNew ==
    /\ IF Old # <<>>
       THEN /\ 2 * Len(Old) <= MaxRows
            /\ new_positions' = CopyTarget(old_positions)
            /\ lists' = Heap([lists EXCEPT ![new_positions'] = CopyRows(Old)],
                             old_positions, new_positions')
       ELSE UNCHANGED <<lists, new_positions>>
    /\ UNCHANGED <<old_positions, stock_price>>
    /\ Rerun("copy")

ClearBoth ==
    /\ old_positions' = NewList(new_positions)
    /\ new_positions' = NewList(old_positions')
    /\ lists' = [id \in ListIds |-> <<>>]
    /\ UNCHANGED stock_price
    /\ Rerun("clear_both")

SetPrice ==
    \E p \in Prices :
        /\ p # stock_price
        /\ stock_price' = p
        /\ UNCHANGED <<lists, old_positions, new_positions>>
        /\ Rerun("price")

Next ==
    \/ AddOld
    \/ AddNew
    \/ RemoveLastOld
    \/ ClearAllOld
    \/ RemoveLastNew
    \/ ClearAllNew
    \/ CopyOldToNew
    \/ ClearBoth
    \/ SetPrice

Spec == Init /\ [][Next]_vars

-----------------------------------------------------------------------------
(* Direct applications of the three functions *)

Aggregates == -MaxAgg..MaxAgg
Quantities == -MaxQty..MaxQty
Deltas == -MaxDelta..MaxDelta
\* Violation quantities: small ones and whole lots of 3600, either sign.
Magnitudes == Aggregates \cup {Fx(3600) * k : k \in -MaxLots..MaxLots}
PenaltyPrices == Prices \cup {1, 135}

CallCheckViolation ==
    \E net_delta \in Aggregates, base_delta \in Aggregates :
        /\ call' = [fn |-> "check_violation", args |-> <<net_delta, base_delta>>,
                    ret |-> check_violation(net_delta, base_delta)]
        /\ UNCHANGED <<lists, old_positions, new_positions, stock_price, report, last>>

CallCalculatePenalty ==
    \E delta_violation \in Magnitudes, price \in PenaltyPrices :
        /\ call' = [fn |-> "calculate_penalty", args |-> <<delta_violation, price>>,
                    ret |-> calculate_penalty(delta_violation, price)]
        /\ UNCHANGED <<lists, old_positions, new_positions, stock_price, report, last>>

CallCalculatePositionDelta ==
    \E pos_type \in Types, direction \in Directions,
       qty \in Quantities, delta_value \in Deltas :
        /\ call' = [fn |-> "calculate_position_delta",
                    args |-> <<pos_type, direction, qty, delta_value>>,
                    ret |-> calculate_position_delta(pos_type, direction, qty, delta_value)]
        /\ UNCHANGED <<lists, old_positions, new_positions, stock_price, report, last>>

FnNext ==
    \/ CallCheckViolation
    \/ CallCalculatePenalty
    \/ CallCalculatePositionDelta

FnSpec == Init /\ [][FnNext]_vars

-----------------------------------------------------------------------------
(* Properties *)

IsCheck == call.fn = "check_violation"
IsPenalty == call.fn = "calculate_penalty"
IsPositionDelta == call.fn = "calculate_position_delta"

\* One strictly positive, the other strictly negative.
StrictSignChange(n, b) == (n > 0 /\ b < 0) \/ (n < 0 /\ b > 0)

SameDirection == "Net Delta increased in same direction"
NoViolation == "No violation - Delta decreased or remained same"
FromZero == "From zero to non-zero"

\* C1: for a nonzero base and no strict sign change (new = 0 and new = base
\* included), check_violation reports a violation exactly when new > base;
\* then the quantity is |new - base| and the reason is the same-direction one;
\* otherwise there is no violation and the quantity is 0.  An unchanged
\* nonzero delta is no violation; a negative base moving toward zero is one.
C1_SameSignIncrease ==
    IsCheck =>
        LET n == call.args[1]
            b == call.args[2]
            r == call.ret
        IN  (b # 0 /\ ~StrictSignChange(n, b)) =>
                /\ r.has_violation <=> n > b
                /\ r.has_violation =>
                       /\ r.violation_qty = Abs(n - b)
                       /\ r.violation_reason = SameDirection
                /\ ~r.has_violation => r.violation_qty = 0
                /\ n = b => ~r.has_violation
                /\ (b < 0 /\ n > b) => r.has_violation

\* A negative base that moved toward zero was reported as a violation.
C1_Witness ==
    /\ IsCheck
    /\ call.args[2] < 0
    /\ call.args[1] > call.args[2]
    /\ call.args[1] < 0
    /\ call.ret.has_violation
    /\ call.ret.violation_qty = call.args[1] - call.args[2]

\* C2: when one of new and base is strictly positive and the other strictly
\* negative, check_violation always reports a violation of quantity
\* |new - base|, with the reason naming the direction of the sign change; the
\* sign-change rule wins over the same-sign comparison.
C2_SignChange ==
    IsCheck =>
        LET n == call.args[1]
            b == call.args[2]
            r == call.ret
        IN  StrictSignChange(n, b) =>
                /\ r.has_violation
                /\ r.violation_qty = Abs(n - b)
                /\ n > 0 => r.violation_reason = "Sign changed from negative to positive"
                /\ n < 0 => r.violation_reason = "Sign changed from positive to negative"
                /\ r.violation_reason # SameDirection

\* A delta that went from negative to positive was reported as a sign change.
C2_Witness ==
    /\ IsCheck
    /\ call.args[1] > 0
    /\ call.args[2] < 0
    /\ call.ret.has_violation
    /\ call.ret.violation_reason = "Sign changed from negative to positive"
    /\ call.ret.violation_qty = call.args[1] - call.args[2]

\* C3: check_violation(x, 0) is a violation exactly when x # 0 and its
\* quantity is |x|; the zero-base rule is applied before the other rules.
C3_ZeroBase ==
    IsCheck =>
        LET x == call.args[1]
            r == call.ret
        IN  call.args[2] = 0 =>
                /\ r.has_violation <=> x # 0
                /\ r.violation_qty = Abs(x)
                /\ r.violation_qty = 0 <=> x = 0
                /\ r.violation_reason \notin {SameDirection, NoViolation}

\* A zero base with a negative new delta was reported as a violation.
C3_Witness ==
    /\ IsCheck
    /\ call.args[2] = 0
    /\ call.args[1] < 0
    /\ call.ret.has_violation
    /\ call.ret.violation_qty = -call.args[1]

\* C4: calculate_penalty(m, p) with p >= 0 returns raw = |m| * p * 0.01,
\* clamped = max(5000, min(100000, raw)), surcharge = 0.18 * clamped and
\* total = clamped + surcharge; clamped lies in [5000, 100000] and total in
\* [5900, 118000], the floor applying even when raw is 0.
C4_Penalty ==
    IsPenalty =>
        LET m == call.args[1]
            price == call.args[2]
            r == call.ret
            raw == r.penalty_amount
        IN  price >= 0 =>
                /\ raw % 50 = 0
                /\ raw \div 50 = Abs(m) * price
                /\ r.final_penalty = IF raw < Rupees(5000) THEN Rupees(5000)
                                     ELSE IF raw > Rupees(100000) THEN Rupees(100000)
                                     ELSE raw
                /\ r.final_penalty % 50 = 0
                /\ r.gst % 9 = 0
                /\ r.gst \div 9 = r.final_penalty \div 50
                /\ r.total_penalty = r.final_penalty + r.gst
                /\ r.final_penalty >= Rupees(5000)
                /\ r.final_penalty <= Rupees(100000)
                /\ r.total_penalty >= Rupees(5900)
                /\ r.total_penalty <= Rupees(118000)
                /\ (m = 0 \/ raw = 0) => r.total_penalty = Rupees(5900)

\* A zero violation quantity was still charged the floor of 5000 plus GST.
C4_Witness ==
    /\ IsPenalty
    /\ call.args[1] = 0
    /\ call.args[2] > 0
    /\ call.ret.penalty_amount = 0
    /\ call.ret.final_penalty = Rupees(5000)
    /\ call.ret.gst = Rupees(900)
    /\ call.ret.total_penalty = Rupees(5900)

\* C5: with base and new both 0, check_violation returns no violation,
\* quantity 0 and the "no violation" reason; the "from zero to non-zero"
\* reason is returned only when base = 0 and new # 0.
C5_ZeroZeroReason ==
    IsCheck =>
        LET n == call.args[1]
            b == call.args[2]
            r == call.ret
        IN  /\ (b = 0 /\ n = 0) =>
                /\ ~r.has_violation
                /\ r.violation_qty = 0
                /\ r.violation_reason = NoViolation
            /\ r.violation_reason = FromZero => (b = 0 /\ n # 0)

\* C6: for a Put Option with quantity q >= 0 and any delta s,
\* calculate_position_delta returns -|s|*q when Long and +|s|*q when Short:
\* the sign of the result depends on the direction only.
C6_PutForcesMagnitude ==
    IsPositionDelta =>
        LET direction == call.args[2]
            q == call.args[3]
            s == call.args[4]
        IN  (call.args[1] = "Put Option" /\ q >= 0) =>
                /\ direction = "Long" => call.ret = -(Abs(s) * q) /\ call.ret <= 0
                /\ direction = "Short" => call.ret = Abs(s) * q /\ call.ret >= 0

\* A long put typed with a negative delta got a negative position delta.
C6_Witness ==
    /\ IsPositionDelta
    /\ call.args[1] = "Put Option"
    /\ call.args[2] = "Long"
    /\ call.args[3] > 0
    /\ call.args[4] < 0
    /\ call.ret = call.args[4] * call.args[3]

\* C7: for a Call Option with any quantity q and any delta s (negative
\* included), calculate_position_delta returns s*q when Long and -s*q when
\* Short: the sign of s is passed through and no magnitude is forced.
C7_CallTrustsSign ==
    IsPositionDelta =>
        LET direction == call.args[2]
            q == call.args[3]
            s == call.args[4]
        IN  call.args[1] = "Call Option" =>
                /\ direction = "Long" => call.ret = s * q
                /\ direction = "Short" => call.ret = -(s * q)

\* A long call typed with a negative delta got a negative position delta.
C7_Witness ==
    /\ IsPositionDelta
    /\ call.args[1] = "Call Option"
    /\ call.args[2] = "Long"
    /\ call.args[3] > 0
    /\ call.args[4] < 0
    /\ call.ret < 0
    /\ call.ret = call.args[4] * call.args[3]

\* C8: for a Future with any quantity q, calculate_position_delta returns +q
\* when Long and -q when Short, whatever the delta value passed.
C8_FutureIgnoresDelta ==
    IsPositionDelta =>
        LET direction == call.args[2]
            q == call.args[3]
        IN  call.args[1] = "Future" =>
                /\ direction = "Long" => call.ret = Fx(q)
                /\ direction = "Short" => call.ret = -Fx(q)

\* A short future passed a delta other than 1 and -1 got -q.
C8_Witness ==
    /\ IsPositionDelta
    /\ call.args[1] = "Future"
    /\ call.args[2] = "Short"
    /\ call.args[3] > 0
    /\ call.args[4] \notin {Fx(1), -Fx(1), 0}
    /\ call.ret = -Fx(call.args[3])

\* C9: in every reachable state of the two books, a penalty is computed and
\* shown only if check_violation on the current (new, base) aggregates
\* returns a violation; otherwise calculate_penalty is not applied and no
\* floor penalty is shown.
C9_PenaltyOnlyOnViolation ==
    LET v == check_violation(NetDelta(New), NetDelta(Old))
    IN  /\ report.penalty # NotComputed =>
               /\ Old # <<>> \/ New # <<>>
               /\ v.has_violation
               /\ report.kind = "violation"
        /\ ~v.has_violation => report.penalty = NotComputed
        /\ report.kind \in {"safe", "prompt"} => report.penalty = NotComputed

\* Both books hold rows, the aggregates are equal and nonzero, and the
\* RESULTS section shows no penalty.
C9_Witness ==
    /\ Old # <<>>
    /\ New # <<>>
    /\ NetDelta(Old) = NetDelta(New)
    /\ NetDelta(Old) # 0
    /\ report.kind = "safe"
    /\ report.penalty = NotComputed

OldBookOps == {"add_old", "remove_old", "clear_old"}
NewBookOps == {"add_new", "remove_new", "clear_new"}

\* An append, remove-last or clear on one book leaves the other book's rows.
BookFrame ==
    /\ last' \in OldBookOps => New' = New
    /\ last' \in NewBookOps => Old' = Old

\* C10 as stated: whenever "Copy Old -> New" is performed, in every state of
\* the two books, the new book becomes a row-for-row duplicate of the base
\* book, the aggregates are then equal and the base book is unchanged; an
\* append, remove-last or clear on one book leaves the other book unchanged.
C10_CopyAlwaysReplaces ==
    [][/\ last' = "copy" =>
            /\ New' = Old
            /\ Old' = Old
            /\ NetDelta(New') = NetDelta(Old')
       /\ BookFrame]_vars

\* C10 as amended: "Copy Old -> New" with a non-empty base book makes the new
\* book a row-for-row duplicate by value of the base book, held in a list of
\* its own, the aggregates are then equal and the base book is unchanged;
\* with an empty base book the copy changes neither book; an append,
\* remove-last or clear on one book leaves the other book unchanged.
C10_CopyOfNonEmptyBase ==
    [][/\ (last' = "copy" /\ Old # <<>>) =>
            /\ New' = Old
            /\ Old' = Old
            /\ NetDelta(New') = NetDelta(Old')
            /\ new_positions' # old_positions'
       /\ (last' = "copy" /\ Old = <<>>) =>
            /\ New' = New
            /\ Old' = Old
       /\ BookFrame]_vars

\* The copy was just performed on a non-empty base book.
C10_Witness ==
    /\ last = "copy"
    /\ Old # <<>>
    /\ New = Old
    /\ new_positions # old_positions

\* The stored contributions of the rows of a book, added from the last row
\* back to the first.
RECURSIVE StoredTotal(_, _)
StoredTotal(positions, k) ==
    IF k = 0 THEN 0
    ELSE StoredTotal(positions, k - 1) + positions[k].PositionDelta

\* The row's stored 'Position Delta' is calculate_position_delta of its own
\* Type, Direction, Quantity and Delta.
RowIsValued(pos) ==
    /\ ~FloatRaises(pos.Delta)
    /\ pos.PositionDelta =
           calculate_position_delta(pos.Type, pos.Direction, pos.Quantity,
                                    Float(pos.Delta))

\* C11: after any sequence of append, remove-last, clear, copy and clear-both,
\* every row of either book carries the 'Position Delta' that
\* calculate_position_delta gives for the row's own Type, Direction, Quantity
\* and Delta, and the base and new aggregates handed to check_violation are
\* the sums of the stored contributions of the rows now in the respective
\* book, 0 for an empty book.
C11_StoredContributions ==
    /\ \A i \in 1..Len(Old) : RowIsValued(Old[i])
    /\ \A i \in 1..Len(New) : RowIsValued(New[i])
    /\ report.violation # NotComputed =>
           /\ report.base_delta = StoredTotal(Old, Len(Old))
           /\ report.net_delta = StoredTotal(New, Len(New))
           /\ report.violation[1] = check_violation(report.net_delta, report.base_delta)
           /\ Old = <<>> => report.base_delta = 0
           /\ New = <<>> => report.net_delta = 0

\* The base book holds a put typed with a negative delta, the new book is
\* empty, and the violation check ran on a nonzero base and a new aggregate
\* of 0.
C11_Witness ==
    /\ Old # <<>>
    /\ New = <<>>
    /\ \E i \in 1..Len(Old) :
           /\ Old[i].Type = "Put Option"
           /\ Old[i].Delta = "-0.5"
           /\ Old[i].Quantity > 0
    /\ report.violation # NotComputed
    /\ report.base_delta # 0
    /\ report.net_delta = 0

====
